---- MODULE Spec2Model ----
(***************************************************************************)
(* Model of src/app.py: scrape_and_zip(search_term, max_images), the       *)
(* handler of scrape_button.click.  A call validates the search term,      *)
(* creates a staging directory temp_images_<uuid>, asks the image search   *)
(* for URLs, downloads them one after the other into the staging           *)
(* directory, zips the directory into <search_term>_images.zip, removes    *)
(* the directory and returns the zip path.                                 *)
(*                                                                         *)
(* Strings the code computes with (search terms, URLs, file names, zip     *)
(* paths) are sequences of one-character strings, so that replace,         *)
(* splitext and split are computed as Python computes them.                *)
(***************************************************************************)
EXTENDS Integers, Sequences, FiniteSets, TLC

(* ------------------------------ bounds -------------------------------- *)
\* Longest URL list the image search returns to a single call (Spec).
MaxUrls == 2
\* Number of calls of scrape_and_zip in a run of repeated calls (SpecRepeat).
MaxCalls == 2
\* Longest URL list the image search returns to a repeated call (SpecRepeat).
MaxRepeatUrls == 1
\* Longest URL list the image search returns to an overlapping call (SpecConc).
MaxConcUrls == 1

(* ------------------------- program constants -------------------------- *)
\* gr.Slider(minimum=10, maximum=200, value=50, step=10)
SliderMin == 10
SliderMax == 200
SliderDefault == 50
SliderStep == 10

\* gr.Error messages (the f-string arguments are left out).
MsgEnterTerm == "Please enter a search term."
MsgNoImages == "No images found or could be downloaded. Please try a different search term."
MsgGeneric == "An error occurred during the process. Please check the console for details."

\* "_images.zip"
ZipSuffix == <<"_", "i", "m", "a", "g", "e", "s", ".", "z", "i", "p">>
\* "image_"
ImagePrefix == <<"i", "m", "a", "g", "e", "_">>
\* ".jpg"
DefaultExtension == <<".", "j", "p", "g">>

(* ------------------------------ inputs -------------------------------- *)
\* Browser sessions that press the button.
Clients == {"c1", "c2"}

\* Search terms typed into search_input: "", "a b", "a_b".
SearchTerms == {<<>>, <<"a", " ", "b">>, <<"a", "_", "b">>}

\* Values num_images_input passes as max_images.
SliderValues == {SliderMin, SliderDefault, SliderMax}

\* Values of max_images below and above the slider range, which a caller
\* that does not go through the slider can pass.
OutOfRange == {SliderMin \div 2, SliderMax + SliderStep}

\* URLs the image search can return: "h/c.png", "h.x/c", "h/c.png?w".
UrlPlain == <<"h", "/", "c", ".", "p", "n", "g">>
UrlNoExt == <<"h", ".", "x", "/", "c">>
UrlQuery == <<"h", "/", "c", ".", "p", "n", "g", "?", "w">>
Urls == {UrlPlain, UrlNoExt, UrlQuery}

\* The exceptions requests.get / raise_for_status / open raise.
GetErrors == {"Timeout", "ConnectionError", "HTTPError", "OSError"}

\* The exceptions shutil.copyfileobj raises while it reads response.raw.
CopyErrors == {"ReadTimeoutError", "ProtocolError"}

\* "except Exception as e" (line 61): the clause that catches e.  Every
\* exception of the loop body is an Exception; line 62 prints its text and
\* keeps nothing else of it.
Caught(e) == "Exception"

\* uuid.uuid4() values: the n-th generated token is n (tokens never repeat).
UUIDs == 1..MaxCalls

\* All sequences over S of length 0..n.
SeqsUpTo(S, n) == UNION {[1..k -> S] : k \in 0..n}

(* -------------------------- pure functions ---------------------------- *)
\* str.rfind(ch), 1-based; 0 when ch does not occur.
RFind(s, ch) ==
  LET hits == {k \in 1..Len(s) : s[k] = ch}
  IN IF hits = {} THEN 0 ELSE CHOOSE k \in hits : \A j \in hits : j <= k

\* str.find(ch), 1-based; 0 when ch does not occur.
Find(s, ch) ==
  LET hits == {k \in 1..Len(s) : s[k] = ch}
  IN IF hits = {} THEN 0 ELSE CHOOSE k \in hits : \A j \in hits : k <= j

\* os.path.splitext(p)[1] (posixpath: sep "/", extsep "."): the suffix from
\* the last dot of the last path component, unless that component consists
\* of leading dots only up to that dot.
SplitExt(p) ==
  LET sepIndex == RFind(p, "/")
      dotIndex == RFind(p, ".")
  IN IF /\ dotIndex > sepIndex
        /\ \E k \in (sepIndex + 1)..(dotIndex - 1) : p[k] # "."
     THEN SubSeq(p, dotIndex, Len(p))
     ELSE <<>>

\* ext.split('?')[0]
BeforeQuery(ext) ==
  LET q == Find(ext, "?")
  IN IF q = 0 THEN ext ELSE SubSeq(ext, 1, q - 1)

\* file_extension of lines 53-55
FileExtension(url) ==
  LET ext == IF SplitExt(url) = <<>> THEN DefaultExtension ELSE SplitExt(url)
  IN IF Find(ext, "?") # 0 THEN BeforeQuery(ext) ELSE ext

Digits == <<"0", "1", "2", "3", "4", "5", "6", "7", "8", "9">>

\* str(n) for n >= 0
RECURSIVE Str(_)
Str(n) ==
  IF n < 10 THEN <<Digits[n + 1]>>
  ELSE Str(n \div 10) \o <<Digits[(n % 10) + 1]>>

\* f"image_{i}{file_extension}"
ImageName(i, url) == ImagePrefix \o Str(i) \o FileExtension(url)

\* search_term.replace(' ', '_')
ReplaceSpaces(s) == [k \in 1..Len(s) |-> IF s[k] = " " THEN "_" ELSE s[k]]

\* f"{search_term.replace(' ', '_')}_images.zip"
ZipPath(term) == ReplaceSpaces(term) \o ZipSuffix

(* ------------------------------ state --------------------------------- *)
VARIABLES
  pc,           \* per client: position in scrape_and_zip
  search_term,  \* per client: argument
  max_images,   \* per client: argument
  temp_dir,     \* per client: uuid of temp_images_<uuid>; 0 before line 25
  image_urls,   \* per client: list built at lines 31-45
  i,            \* per client: loop index of line 48
  inflight,     \* per client: indices whose request is open
  attempts,     \* per client: the iterations of the loop run so far
  image_files,  \* per client: listing of line 66
  zip_path,     \* per client: line 72
  towrite,      \* per client: files of os.walk not yet written to the zip
  exc,          \* per client: exception caught at line 85
  result,       \* per client: value last returned to the caller
  error,        \* per client: gr.Error message last raised to the caller
  printed,      \* per client: exception its last call printed at line 89
  dirs,         \* file system: uuids of the existing staging directories
  files,        \* file system: files of the staging directories
  archives,     \* file system: zip path -> archive
  rmtrees,      \* uuid -> number of shutil.rmtree calls on temp_images_<uuid>
  uuids,        \* number of uuid4 tokens generated
  calls         \* number of calls started

vars == <<pc, search_term, max_images, temp_dir, image_urls, i, inflight,
          attempts, image_files, zip_path, towrite, exc, result, error,
          printed, dirs, files, archives, rmtrees, uuids, calls>>

locals == <<search_term, max_images, temp_dir, image_urls, i, inflight,
            attempts, image_files, zip_path, towrite, exc>>

outputs == <<result, error, printed>>

fs == <<dirs, files, archives, rmtrees>>

NoArchives == [p \in {} |-> 0]

Init ==
  /\ pc = [c \in Clients |-> "idle"]
  /\ search_term = [c \in Clients |-> <<>>]
  /\ max_images = [c \in Clients |-> 0]
  /\ temp_dir = [c \in Clients |-> 0]
  /\ image_urls = [c \in Clients |-> <<>>]
  /\ i = [c \in Clients |-> 0]
  /\ inflight = [c \in Clients |-> {}]
  /\ attempts = [c \in Clients |-> <<>>]
  /\ image_files = [c \in Clients |-> {}]
  /\ zip_path = [c \in Clients |-> <<>>]
  /\ towrite = [c \in Clients |-> {}]
  /\ exc = [c \in Clients |-> ""]
  /\ result = [c \in Clients |-> <<>>]
  /\ error = [c \in Clients |-> ""]
  /\ printed = [c \in Clients |-> ""]
  /\ dirs = {}
  /\ files = {}
  /\ archives = NoArchives
  /\ rmtrees = [u \in UUIDs |-> 0]
  /\ uuids = 0
  /\ calls = 0

(* --------------------------- file system ------------------------------ *)
\* The files of temp_images_<d>.
FilesIn(d) == {f \in files : f.dir = d}

\* os.listdir(temp_dir) filtered by os.path.isfile
ListDir(d) == {f.name : f \in FilesIn(d)}

\* open(file_path, 'wb'): creates the file, or truncates it
OpenWb(d, name) ==
  {f \in files : ~(f.dir = d /\ f.name = name)}
    \cup {[dir |-> d, name |-> name, data |-> "incomplete"]}

\* shutil.copyfileobj(response.raw, f) ran to the end
WriteAll(d, name) ==
  {f \in files : ~(f.dir = d /\ f.name = name)}
    \cup {[dir |-> d, name |-> name, data |-> "complete"]}

\* shutil.rmtree(temp_dir): the directory and its files are gone
RmTree(d) ==
  /\ dirs' = dirs \ {d}
  /\ files' = {f \in files : f.dir # d}
  /\ rmtrees' = [rmtrees EXCEPT ![d] = @ + 1]

\* Mutant of ZipFileW: mode 'a', an existing archive keeps its entries.
ZipFileAppend(path) ==
  [p \in DOMAIN archives \cup {path} |->
     IF p = path /\ p \notin DOMAIN archives
       THEN [entries |-> <<>>, closed |-> FALSE]
       ELSE [archives[p] EXCEPT !.closed = (p # path) /\ @]]

\* zipfile.ZipFile(zip_path, 'w'): creates the archive, or truncates it
ZipFileW(path) ==
  [p \in DOMAIN archives \cup {path} |->
     IF p = path THEN [entries |-> <<>>, closed |-> FALSE] ELSE archives[p]]

\* zipf.write(file_path, arcname): one more entry
ZipfWrite(path, f) ==
  [archives EXCEPT ![path].entries =
     Append(@, [name |-> f.name, data |-> f.data])]

(* ------------------------------ actions ------------------------------- *)
\* Mutant of Call: the directory name has no token, every call uses
\* temp_images_1 (makedirs with exist_ok=True accepts an existing one).
CallSharedDir(c, term, n) ==
  /\ pc[c] = "idle"
  /\ calls' = calls + 1
  /\ search_term' = [search_term EXCEPT ![c] = term]
  /\ max_images' = [max_images EXCEPT ![c] = n]
  /\ result' = [result EXCEPT ![c] = <<>>]
  /\ error' = [error EXCEPT ![c] = IF term = <<>> THEN MsgEnterTerm ELSE ""]
  /\ printed' = [printed EXCEPT ![c] = ""]
  /\ IF term = <<>>
       THEN /\ pc' = [pc EXCEPT ![c] = "raised"]
            /\ UNCHANGED <<temp_dir, uuids, dirs>>
       ELSE /\ uuids' = uuids + 1
            /\ temp_dir' = [temp_dir EXCEPT ![c] = 1]
            /\ dirs' = dirs \cup {1}
            /\ pc' = [pc EXCEPT ![c] = "resolve"]
  /\ UNCHANGED <<image_urls, i, inflight, attempts, image_files, zip_path,
                 towrite, exc, files, archives, rmtrees>>

\* Lines 21-28: the empty search term is refused; otherwise the staging
\* directory is created.
Call(c, term, n) ==
  /\ pc[c] = "idle"
  /\ calls' = calls + 1
  /\ search_term' = [search_term EXCEPT ![c] = term]
  /\ max_images' = [max_images EXCEPT ![c] = n]
  /\ result' = [result EXCEPT ![c] = <<>>]
  /\ error' = [error EXCEPT ![c] = IF term = <<>> THEN MsgEnterTerm ELSE ""]
  /\ printed' = [printed EXCEPT ![c] = ""]
  /\ IF term = <<>>
       THEN /\ pc' = [pc EXCEPT ![c] = "raised"]
            /\ UNCHANGED <<temp_dir, uuids, dirs>>
       ELSE /\ uuids' = uuids + 1
            /\ temp_dir' = [temp_dir EXCEPT ![c] = uuids + 1]
            /\ dirs' = dirs \cup {uuids + 1}
            /\ pc' = [pc EXCEPT ![c] = "resolve"]
  /\ UNCHANGED <<image_urls, i, inflight, attempts, image_files, zip_path,
                 towrite, exc, files, archives, rmtrees>>

\* The queue of the click event runs one call at a time.
NoneRunning == \A d \in Clients : pc[d] = "idle"

\* scrape_button.click: the first press of the button.
Click(c) ==
  /\ calls = 0
  /\ \E term \in SearchTerms, n \in SliderValues : NoneRunning /\ Call(c, term, n)

\* scrape_and_zip called with a max_images the slider does not produce.
DirectCall(c) ==
  /\ calls = 0
  /\ \E term \in SearchTerms, n \in OutOfRange : NoneRunning /\ Call(c, term, n)

\* scrape_button.click: any press of the button, the first or a later one.
ClickAgain(c) ==
  /\ calls < MaxCalls
  /\ \E term \in SearchTerms, n \in SliderValues : NoneRunning /\ Call(c, term, n)

\* scrape_and_zip is entered whether or not another call of it is running:
\* the event of lines 116-120 sets no concurrency limit and the function
\* takes no lock, so calls overlap whenever the server runs more than one
\* handler at a time, or a second server runs in the same working directory.
\* There are as many calls as there are sessions.
ClickConcurrent(c) ==
  /\ calls < Cardinality(Clients)
  /\ \E term \in SearchTerms \ {<<>>} : Call(c, term, SliderDefault)

\* Lines 31-45: the image search returns at most max_results URLs.  The call
\* of line 33 is the last use of max_images, which is dropped here.
Resolve(c, urls) ==
  /\ pc[c] = "resolve"
  /\ Len(urls) <= max_images[c]
  /\ image_urls' = [image_urls EXCEPT ![c] = urls]
  /\ max_images' = [max_images EXCEPT ![c] = 0]
  /\ i' = [i EXCEPT ![c] = 0]
  /\ pc' = [pc EXCEPT ![c] = "loop"]
  /\ UNCHANGED <<search_term, temp_dir, inflight, attempts, image_files,
                 zip_path, towrite, exc, outputs, fs, uuids, calls>>

ResolveOk(c) == \E urls \in SeqsUpTo(Urls, MaxUrls) : Resolve(c, urls)

ResolveShort(c) == \E urls \in SeqsUpTo(Urls, MaxRepeatUrls) : Resolve(c, urls)

\* Overlapping calls are all given the URL "h/c.png".
ResolveConc(c) == \E urls \in SeqsUpTo({UrlPlain}, MaxConcUrls) : Resolve(c, urls)

\* Lines 32-45: the image search raises.
ResolveFail(c) ==
  /\ pc[c] = "resolve"
  /\ exc' = [exc EXCEPT ![c] = "ResolverError"]
  /\ max_images' = [max_images EXCEPT ![c] = 0]
  /\ pc' = [pc EXCEPT ![c] = "except"]
  /\ UNCHANGED <<search_term, temp_dir, image_urls, i, inflight,
                 attempts, image_files, zip_path, towrite, outputs, fs, uuids,
                 calls>>

\* Lines 48-50: the next iteration sends its request.
FetchStart(c) ==
  /\ pc[c] = "loop"
  /\ i[c] < Len(image_urls[c])
  /\ inflight' = [inflight EXCEPT ![c] = @ \cup {i[c]}]
  /\ pc' = [pc EXCEPT ![c] = "get"]
  /\ UNCHANGED <<search_term, max_images, temp_dir, image_urls, i, attempts,
                 image_files, zip_path, towrite, exc, outputs, fs, uuids, calls>>

\* Mutant of GetFail: the failed request is never released.
GetFailLeak(c) ==
  /\ pc[c] = "get"
  /\ attempts' = [attempts EXCEPT ![c] = Append(@, [index |-> i[c], ok |-> FALSE, caught |-> "Exception"])]
  /\ i' = [i EXCEPT ![c] = @ + 1]
  /\ pc' = [pc EXCEPT ![c] = "loop"]
  /\ UNCHANGED <<search_term, max_images, temp_dir, image_urls, inflight,
                 image_files, zip_path, towrite, exc, outputs, fs, uuids, calls>>

\* Mutant of GetFail: the first failed request ends the loop.
GetFailAbort(c) ==
  /\ pc[c] = "get"
  /\ inflight' = [inflight EXCEPT ![c] = @ \ {i[c]}]
  /\ attempts' = [attempts EXCEPT ![c] = Append(@, [index |-> i[c], ok |-> FALSE, caught |-> "Exception"])]
  /\ i' = [i EXCEPT ![c] = Len(image_urls[c])]
  /\ pc' = [pc EXCEPT ![c] = "loop"]
  /\ UNCHANGED <<search_term, max_images, temp_dir, image_urls, image_files,
                 zip_path, towrite, exc, outputs, fs, uuids, calls>>

\* Lines 50-59, 61-62: requests.get, raise_for_status or open raises; the
\* exception is printed and the loop goes on.
GetFailWith(c, e) ==
  /\ pc[c] = "get"
  /\ inflight' = [inflight EXCEPT ![c] = @ \ {i[c]}]
  /\ attempts' = [attempts EXCEPT ![c] =
                    Append(@, [index |-> i[c], ok |-> FALSE, caught |-> Caught(e)])]
  /\ i' = [i EXCEPT ![c] = @ + 1]
  /\ pc' = [pc EXCEPT ![c] = "loop"]
  /\ UNCHANGED <<search_term, max_images, temp_dir, image_urls, image_files,
                 zip_path, towrite, exc, outputs, fs, uuids, calls>>

GetFail(c) == \E e \in GetErrors : GetFailWith(c, e)

\* Lines 50-59: the response is 2xx and the output file is opened.
OpenFile(c) ==
  /\ pc[c] = "get"
  /\ files' = OpenWb(temp_dir[c], ImageName(i[c], image_urls[c][i[c] + 1]))
  /\ pc' = [pc EXCEPT ![c] = "copy"]
  /\ UNCHANGED <<search_term, max_images, temp_dir, image_urls, i, inflight,
                 attempts, image_files, zip_path, towrite, exc, outputs, dirs,
                 archives, rmtrees, uuids, calls>>

\* Line 60: the body is copied to the file.
CopyOk(c) ==
  /\ pc[c] = "copy"
  /\ files' = WriteAll(temp_dir[c], ImageName(i[c], image_urls[c][i[c] + 1]))
  /\ inflight' = [inflight EXCEPT ![c] = @ \ {i[c]}]
  /\ attempts' = [attempts EXCEPT ![c] = Append(@, [index |-> i[c], ok |-> TRUE, caught |-> ""])]
  /\ i' = [i EXCEPT ![c] = @ + 1]
  /\ pc' = [pc EXCEPT ![c] = "loop"]
  /\ UNCHANGED <<search_term, max_images, temp_dir, image_urls, image_files,
                 zip_path, towrite, exc, outputs, dirs, archives, rmtrees,
                 uuids, calls>>

\* Lines 60-62: reading the body raises; the opened file stays as it is.
CopyFailWith(c, e) ==
  /\ pc[c] = "copy"
  /\ inflight' = [inflight EXCEPT ![c] = @ \ {i[c]}]
  /\ attempts' = [attempts EXCEPT ![c] =
                    Append(@, [index |-> i[c], ok |-> FALSE, caught |-> Caught(e)])]
  /\ i' = [i EXCEPT ![c] = @ + 1]
  /\ pc' = [pc EXCEPT ![c] = "loop"]
  /\ UNCHANGED <<search_term, max_images, temp_dir, image_urls, image_files,
                 zip_path, towrite, exc, outputs, fs, uuids, calls>>

CopyFail(c) == \E e \in CopyErrors : CopyFailWith(c, e)

\* Lines 66-72: after the loop the directory is listed; with no file in it
\* the directory is removed and gr.Error is raised inside the try block.
CheckFiles(c) ==
  /\ pc[c] = "loop"
  /\ i[c] >= Len(image_urls[c])
  /\ image_files' = [image_files EXCEPT ![c] = ListDir(temp_dir[c])]
  /\ IF ListDir(temp_dir[c]) = {}
       THEN /\ RmTree(temp_dir[c])
            /\ exc' = [exc EXCEPT ![c] = "EmptyBatchError"]
            /\ pc' = [pc EXCEPT ![c] = "except"]
            /\ UNCHANGED zip_path
       ELSE /\ zip_path' = [zip_path EXCEPT ![c] = ZipPath(search_term[c])]
            /\ pc' = [pc EXCEPT ![c] = "zipopen"]
            /\ UNCHANGED <<exc, dirs, files, rmtrees>>
  /\ UNCHANGED <<search_term, max_images, temp_dir, image_urls, i, inflight,
                 attempts, towrite, outputs, archives, uuids, calls>>

\* Lines 74-75: the zip file is opened for writing and the directory walked.
ZipOpen(c) ==
  /\ pc[c] = "zipopen"
  /\ archives' = ZipFileW(zip_path[c])
  /\ towrite' = [towrite EXCEPT ![c] = FilesIn(temp_dir[c])]
  /\ pc' = [pc EXCEPT ![c] = "zipwrite"]
  /\ UNCHANGED <<search_term, max_images, temp_dir, image_urls, i, inflight,
                 attempts, image_files, zip_path, exc, outputs, dirs, files,
                 rmtrees, uuids, calls>>

\* Line 74: the zip file cannot be opened.
ZipOpenFail(c) ==
  /\ pc[c] = "zipopen"
  /\ exc' = [exc EXCEPT ![c] = "ArchiveError"]
  /\ pc' = [pc EXCEPT ![c] = "except"]
  /\ UNCHANGED <<search_term, max_images, temp_dir, image_urls, i, inflight,
                 attempts, image_files, zip_path, towrite, outputs, fs, uuids,
                 calls>>

\* Lines 76-78: one file of the walk, in the order the walk returns them.
ZipWrite(c) ==
  /\ pc[c] = "zipwrite"
  /\ \E f \in towrite[c] :
       /\ archives' = ZipfWrite(zip_path[c], f)
       /\ towrite' = [towrite EXCEPT ![c] = @ \ {f}]
  /\ UNCHANGED <<pc, search_term, max_images, temp_dir, image_urls, i, inflight,
                 attempts, image_files, zip_path, exc, outputs, dirs, files,
                 rmtrees, uuids, calls>>

\* Lines 76-78: writing an entry raises; the file written so far stays.
ZipWriteFail(c) ==
  /\ pc[c] = "zipwrite"
  /\ towrite[c] # {}
  /\ exc' = [exc EXCEPT ![c] = "ArchiveError"]
  /\ pc' = [pc EXCEPT ![c] = "except"]
  /\ UNCHANGED <<search_term, max_images, temp_dir, image_urls, i, inflight,
                 attempts, image_files, zip_path, towrite, outputs, fs, uuids,
                 calls>>

\* Line 74, end of the with block: the archive is closed.
ZipClose(c) ==
  /\ pc[c] = "zipwrite"
  /\ towrite[c] = {}
  /\ archives' = [archives EXCEPT ![zip_path[c]].closed = TRUE]
  /\ pc' = [pc EXCEPT ![c] = "rmtree"]
  /\ UNCHANGED <<search_term, max_images, temp_dir, image_urls, i, inflight,
                 attempts, image_files, zip_path, towrite, exc, outputs, dirs,
                 files, rmtrees, uuids, calls>>

\* Lines 81-84: the staging directory is removed and zip_path returned.
Cleanup(c) ==
  /\ pc[c] = "rmtree"
  /\ RmTree(temp_dir[c])
  /\ result' = [result EXCEPT ![c] = zip_path[c]]
  /\ pc' = [pc EXCEPT ![c] = "returned"]
  /\ UNCHANGED <<search_term, max_images, temp_dir, image_urls, i, inflight,
                 attempts, image_files, zip_path, towrite, exc, error, printed,
                 archives, uuids, calls>>

\* Mutant of Handler: the handler does not remove the directory.
HandlerNoCleanup(c) ==
  /\ pc[c] = "except"
  /\ printed' = [printed EXCEPT ![c] = exc[c]]
  /\ error' = [error EXCEPT ![c] = MsgGeneric]
  /\ pc' = [pc EXCEPT ![c] = "raised"]
  /\ UNCHANGED <<search_term, max_images, temp_dir, image_urls, i, inflight,
                 attempts, image_files, zip_path, towrite, exc, result, fs,
                 uuids, calls>>

\* Mutant of Handler: rmtree without the os.path.exists test.
HandlerAlwaysRmtree(c) ==
  /\ pc[c] = "except"
  /\ RmTree(temp_dir[c])
  /\ printed' = [printed EXCEPT ![c] = exc[c]]
  /\ error' = [error EXCEPT ![c] = MsgGeneric]
  /\ pc' = [pc EXCEPT ![c] = "raised"]
  /\ UNCHANGED <<search_term, max_images, temp_dir, image_urls, i, inflight,
                 attempts, image_files, zip_path, towrite, exc, result,
                 archives, uuids, calls>>

\* Lines 85-90: every exception of the try block, the gr.Error of line 69
\* included, is caught; the directory is removed if it exists, the
\* exception printed and the generic gr.Error raised.
Handler(c) ==
  /\ pc[c] = "except"
  /\ IF temp_dir[c] \in dirs
       THEN RmTree(temp_dir[c])
       ELSE UNCHANGED <<dirs, files, rmtrees>>
  /\ printed' = [printed EXCEPT ![c] = exc[c]]
  /\ error' = [error EXCEPT ![c] = MsgGeneric]
  /\ pc' = [pc EXCEPT ![c] = "raised"]
  /\ UNCHANGED <<search_term, max_images, temp_dir, image_urls, i, inflight,
                 attempts, image_files, zip_path, towrite, exc, result,
                 archives, uuids, calls>>

\* The call is over: its frame is gone, the caller keeps the outcome.
Done(c) ==
  /\ pc[c] \in {"returned", "raised"}
  /\ pc' = [pc EXCEPT ![c] = "idle"]
  /\ search_term' = [search_term EXCEPT ![c] = <<>>]
  /\ max_images' = [max_images EXCEPT ![c] = 0]
  /\ temp_dir' = [temp_dir EXCEPT ![c] = 0]
  /\ image_urls' = [image_urls EXCEPT ![c] = <<>>]
  /\ i' = [i EXCEPT ![c] = 0]
  /\ attempts' = [attempts EXCEPT ![c] = <<>>]
  /\ image_files' = [image_files EXCEPT ![c] = {}]
  /\ zip_path' = [zip_path EXCEPT ![c] = <<>>]
  /\ towrite' = [towrite EXCEPT ![c] = {}]
  /\ exc' = [exc EXCEPT ![c] = ""]
  /\ UNCHANGED <<inflight, outputs, fs, uuids, calls>>

Step(c) ==
  \/ ResolveFail(c)
  \/ FetchStart(c)
  \/ GetFail(c)
  \/ OpenFile(c)
  \/ CopyOk(c)
  \/ CopyFail(c)
  \/ CheckFiles(c)
  \/ ZipOpen(c)
  \/ ZipOpenFail(c)
  \/ ZipWrite(c)
  \/ ZipWriteFail(c)
  \/ ZipClose(c)
  \/ Cleanup(c)
  \/ Handler(c)
  \/ Done(c)

\* One call of scrape_and_zip.
Next == \E c \in Clients : Click(c) \/ ResolveOk(c) \/ Step(c) \/ DirectCall(c)

Spec == Init /\ [][Next]_vars

\* Calls of scrape_and_zip one after the other, on the same file system.
NextRepeat == \E c \in Clients : ClickAgain(c) \/ ResolveShort(c) \/ Step(c)

SpecRepeat == Init /\ [][NextRepeat]_vars

\* Calls of scrape_and_zip that overlap in time, on the same file system.
NextConc == \E c \in Clients : ClickConcurrent(c) \/ ResolveConc(c) \/ Step(c)

SpecConc == Init /\ [][NextConc]_vars

(* ------------------------------ properties ---------------------------- *)
\* The call has returned or raised.
Finished(c) == pc[c] \in {"returned", "raised"}

\* The loop of lines 48-62 is over.
FetchPhaseEnded(c) ==
  \/ pc[c] \in {"zipopen", "zipwrite", "rmtree", "returned"}
  \/ pc[c] \in {"except", "raised"} /\ exc[c] \in {"EmptyBatchError", "ArchiveError"}

\* The indices whose iteration ran to the end of line 60.
Succeeded(c) == {attempts[c][k].index : k \in {j \in DOMAIN attempts[c] : attempts[c][j].ok}}

\* The entry names of the archive at path.
EntryNames(path) ==
  {archives[path].entries[k].name : k \in DOMAIN archives[path].entries}

\* "a_b_images.zip"
AbImagesZip == <<"a", "_", "b", "_", "i", "m", "a", "g", "e", "s", ".", "z", "i", "p">>

\* C1: once a call has returned or raised, on whatever path, the staging
\* directory it created does not exist any more and no file of it is left;
\* when no call is running no staging directory exists at all.
C1_StagingGoneOnExit ==
  /\ \A c \in Clients :
       Finished(c) => temp_dir[c] \notin dirs /\ FilesIn(temp_dir[c]) = {}
  /\ (\A c \in Clients : pc[c] \in {"idle", "returned", "raised"})
       => dirs = {} /\ files = {}

\* A call that staged files has failed while writing the archive and has
\* raised after removing its directory.
C1_Witness ==
  \E c \in Clients :
    /\ pc[c] = "raised"
    /\ exc[c] = "ArchiveError"
    /\ image_files[c] # {}
    /\ rmtrees[temp_dir[c]] = 1

\* C2 (as claimed): a call that ends because the image search returned no
\* URL or no file was downloaded raises the "No images found" error to its
\* caller, not the generic one.
C2_EmptyBatchReachesCaller ==
  \A c \in Clients :
    pc[c] = "raised" /\ exc[c] = "EmptyBatchError" => error[c] = MsgNoImages

\* C3 (as claimed): a call returns an archive only when at least one
\* download succeeded, the archive then exists with at least one entry, a
\* call with a successful download and no archive failure returns, and no
\* call ends with both a result and an error.
C3_ArchiveIffSuccess ==
  \A c \in Clients :
    /\ pc[c] = "returned" =>
         /\ Succeeded(c) # {}
         /\ result[c] \in DOMAIN archives
         /\ Len(archives[result[c]].entries) >= 1
         /\ error[c] = ""
    /\ pc[c] = "raised" => result[c] = <<>>
    /\ pc[c] = "raised" /\ Succeeded(c) # {} => exc[c] = "ArchiveError"

\* C4 (as claimed): the returned archive has exactly one entry per index
\* whose download succeeded, named image_<index><extension> with the index
\* of the URL in the list of the image search.
C4_EntriesAreSuccesses ==
  \A c \in Clients :
    pc[c] = "returned" =>
      /\ EntryNames(result[c]) =
           {ImageName(k, image_urls[c][k + 1]) : k \in Succeeded(c)}
      /\ Len(archives[result[c]].entries) = Cardinality(Succeeded(c))

\* C5: the loop attempts the URLs in order, each index once, whatever the
\* earlier attempts ended with, and it is over only when every URL of the
\* list has had its attempt.
C5_EveryUrlAttemptedOnce ==
  \A c \in Clients :
    /\ Len(attempts[c]) <= Len(image_urls[c])
    /\ \A k \in DOMAIN attempts[c] : attempts[c][k].index = k - 1
    /\ pc[c] = "loop" => Len(attempts[c]) = i[c]
    /\ FetchPhaseEnded(c) => Len(attempts[c]) = Len(image_urls[c])

\* A loop that is over, whose first attempt failed and whose second did not.
C5_Witness ==
  \E c \in Clients :
    /\ FetchPhaseEnded(c)
    /\ Len(attempts[c]) >= 2
    /\ ~attempts[c][1].ok
    /\ attempts[c][2].ok

\* C6 (as claimed): a call with an empty search term or with max_images
\* outside 10..200 raises the validation error and never gets as far as
\* creating the staging directory and calling the image search.
C6_InvalidRequestRejected ==
  \A c \in Clients :
    /\ pc[c] # "idle" /\ search_term[c] = <<>> =>
         pc[c] = "raised" /\ error[c] = MsgEnterTerm /\ temp_dir[c] = 0
    /\ pc[c] = "resolve" => max_images[c] \in SliderMin..SliderMax

\* C7: a call never has more than one request open at a time, however
\* many URLs the image search returned.
C7_OneFetchInFlight ==
  \A c \in Clients : Cardinality(inflight[c]) <= 1

\* The request of the second URL is open.
C7_Witness ==
  \E c \in Clients : inflight[c] = {1} /\ Len(image_urls[c]) >= 2

\* C8: shutil.rmtree runs at most once on a staging directory and exactly
\* once by the time the call that created it is over; from the opening of
\* the zip file to its close the directory is there with every listed file
\* in it, also when the archive then fails; and a call that returns has
\* written every listed file to the archive.
C8_RemovedOnceAfterArchiving ==
  /\ \A u \in UUIDs : rmtrees[u] <= 1
  /\ \A c \in Clients :
       /\ Finished(c) /\ temp_dir[c] # 0 => rmtrees[temp_dir[c]] = 1
       /\ ( \/ pc[c] \in {"zipopen", "zipwrite", "rmtree"}
            \/ pc[c] = "except" /\ exc[c] = "ArchiveError" )
          => /\ rmtrees[temp_dir[c]] = 0
             /\ temp_dir[c] \in dirs
             /\ ListDir(temp_dir[c]) = image_files[c]
       /\ pc[c] = "returned" =>
            towrite[c] = {} /\ image_files[c] \subseteq EntryNames(result[c])

\* A call that archived two files has removed its directory and returned.
C8_Witness ==
  \E c \in Clients :
    /\ pc[c] = "returned"
    /\ Cardinality(image_files[c]) >= 2
    /\ rmtrees[temp_dir[c]] = 1

\* C9: every successful call for "a b" or "a_b" returns "a_b_images.zip",
\* which is then the only archive file, closed, and holds one entry for each
\* file the call staged and no other entry, whatever the file held before.
C9_SamePathOverwritten ==
  \A c \in Clients :
    /\ pc[c] \in {"rmtree", "returned"} =>
         /\ zip_path[c] = AbImagesZip
         /\ DOMAIN archives = {AbImagesZip}
         /\ archives[AbImagesZip].closed
         /\ EntryNames(AbImagesZip) = image_files[c]
         /\ Len(archives[AbImagesZip].entries) = Cardinality(image_files[c])
    /\ pc[c] = "rmtree" =>
         {archives[AbImagesZip].entries[k] : k \in DOMAIN archives[AbImagesZip].entries}
           = {[name |-> f.name, data |-> f.data] : f \in FilesIn(temp_dir[c])}
    /\ pc[c] = "returned" => result[c] = AbImagesZip

\* The second call returns the path the first call returned to the other
\* client.
C9_Witness ==
  \E c, d \in Clients :
    /\ c # d
    /\ calls = 2
    /\ pc[c] = "returned"
    /\ pc[d] = "idle"
    /\ result[d] = result[c]

\* C10 (as claimed): a call that failed because the image search raised and
\* a call that failed because nothing was downloaded raise different
\* errors to their callers.
C10_ResolverFailureDistinct ==
  \A c, d \in Clients :
    /\ error[c] # ""
    /\ printed[c] = "ResolverError"
    /\ error[d] # ""
    /\ printed[d] = "EmptyBatchError"
    => error[c] # error[d]

\* The kind the error taxonomy gives a failure: a timeout is Timeout, a
\* non-2xx response or a transport error is Transport.
TaxonomyKind(e) ==
  IF e \in {"Timeout", "ReadTimeoutError"} THEN "Timeout" ELSE "Transport"

\* C11 (as claimed): the record of a failed download has the kind of the
\* failure: Timeout for a request or a read that timed out, Transport for a
\* non-2xx response or a transport error.
C11_FailureClassified ==
  [][\A c \in Clients :
       /\ \A e \in {"Timeout", "ConnectionError", "HTTPError"} :
            GetFailWith(c, e) =>
              attempts'[c][Len(attempts'[c])].caught = TaxonomyKind(e)
       /\ \A e \in CopyErrors :
            CopyFailWith(c, e) =>
              attempts'[c][Len(attempts'[c])].caught = TaxonomyKind(e)]_vars

\* C12 (as claimed): while the staging directory exists, the file
\* image_<index><extension> of an index whose attempt is over is in it if
\* and only if the attempt succeeded, and the returned archive has no entry
\* of an index whose attempt failed.
C12_OnlySuccessesStaged ==
  \A c \in Clients :
    \A k \in DOMAIN attempts[c] :
      LET name == ImageName(k - 1, image_urls[c][k])
      IN /\ temp_dir[c] \in dirs =>
              (name \in ListDir(temp_dir[c]) <=> attempts[c][k].ok)
         /\ pc[c] = "returned" /\ ~attempts[c][k].ok =>
              name \notin EntryNames(result[c])

\* The characters of the staged file names, in ascending code point order.
CodePointOrder == <<".", "0", "1", "2", "3", "4", "5", "6", "7", "8", "9",
                    "_", "a", "e", "g", "i", "j", "m", "n", "p">>

\* The position of ch in CodePointOrder.
Ord(ch) == CHOOSE k \in DOMAIN CodePointOrder : CodePointOrder[k] = ch

\* s < t as Python compares two str values.
StrLess(s, t) ==
  \E k \in 1..(Len(t)) :
    /\ k <= Len(s) + 1
    /\ \A j \in 1..(k - 1) : s[j] = t[j]
    /\ k = Len(s) + 1 \/ Ord(s[k]) < Ord(t[k])

\* C13 (as claimed): the entries of an archive are in ascending order of
\* their path relative to the staging directory, in whatever order the
\* walk of line 75 returns the files.
C13_EntriesAscending ==
  \A p \in DOMAIN archives :
    \A k \in DOMAIN archives[p].entries :
      k > 1 => StrLess(archives[p].entries[k - 1].name,
                       archives[p].entries[k].name)

\* The step is one of client c's call.
Acting(c) == pc'[c] # pc[c] \/ towrite'[c] # towrite[c]

\* C14: a call's staging directory is one no earlier call has used and no
\* overlapping call uses, also for the same search term; it exists when the
\* first request is sent; and a step of a call changes no directory but
\* its own: it creates or removes no other directory, writes or deletes no
\* file of another one, and zips files of its own only.  (uuid4 tokens are
\* taken never to repeat.)
C14_OwnStagingRoot ==
  [][\A c \in Clients :
       /\ pc[c] = "idle" /\ pc'[c] = "resolve" =>
            /\ temp_dir'[c] \notin 1..uuids
            /\ temp_dir'[c] \in dirs'
       /\ \A d \in Clients \ {c} :
            temp_dir'[c] # 0 => temp_dir'[c] # temp_dir'[d]
       /\ pc[c] = "loop" /\ pc'[c] = "get" => temp_dir[c] \in dirs
       /\ Acting(c) =>
            \A u \in UUIDs \ {temp_dir[c], temp_dir'[c]} :
              /\ FilesIn(u)' = FilesIn(u)
              /\ u \in dirs' <=> u \in dirs
              /\ rmtrees'[u] = rmtrees[u]
       /\ \A f \in towrite'[c] : f.dir = temp_dir'[c]]_vars

\* Two overlapping calls for the same search term: one has removed its
\* directory and returned while the other is writing a file into its own.
C14_Witness ==
  \E c, d \in Clients :
    /\ c # d
    /\ search_term[c] = search_term[d]
    /\ pc[c] = "returned"
    /\ pc[d] = "copy"
    /\ temp_dir[d] \in dirs
    /\ FilesIn(temp_dir[d]) # {}

\* C15 (as claimed): when a call returns zip_path, also while another call
\* for a search term with the same zip path is running, the archive at that
\* path has one entry for each file the call staged, with the content of
\* that file, and no other entry.
C15_ReturnedArchiveIsOwn ==
  [][\A c \in Clients :
       pc[c] = "rmtree" /\ pc'[c] = "returned" =>
         LET entries == archives'[result'[c]].entries
         IN /\ Len(entries) = Cardinality(FilesIn(temp_dir[c]))
            /\ \A k \in DOMAIN entries :
                 [dir |-> temp_dir[c], name |-> entries[k].name,
                  data |-> entries[k].data] \in files]_vars

====
